---------------------------- MODULE Spec2Model ----------------------------
(***************************************************************************)
(* A model of the portfolio core of lazy-tracker (src/scripts/portfolio.py)*)
(* and of the way src/app.py calls it.                                     *)
(*                                                                         *)
(* Numbers.  The code computes in binary floating point; the model computes*)
(* in exact arithmetic.  Money amounts and prices are integers, a weight is*)
(* a whole number of slider steps of 1/WDen, and a deviation is a fraction *)
(* [num, den], or not a number.  Rounding error of the floats is therefore *)
(* outside the model.                                                      *)
(*                                                                         *)
(* Dates.  A date is <<year, month, day>> of the Gregorian calendar.  The  *)
(* index of the price table is a run of consecutive entries of TradingDays,*)
(* a sample of real exchange trading days.                                 *)
(***************************************************************************)
EXTENDS Integers, Sequences, FiniteSets, TLC

(***************************************************************************)
(* Bounds of the model.                                                    *)
(***************************************************************************)
\* the longest price table, in rows
MaxDays == 3
\* the largest initial cash amount
MaxCash == 20
\* the longest daily-return series given to the metrics
MaxReturns == 3
\* the most runs of app.main in one session
MaxReruns == 4

(***************************************************************************)
(* Program constants.                                                      *)
(***************************************************************************)
\* a weight is a multiple of the slider step 0.05 = 1/WDen
WDen == 20
\* DEFAULT_INITIAL_CASH, and the least amount the cash input takes
DEFAULT_INITIAL_CASH == 100000
MinInitialCash == 1000
\* the factor 252 that annualizes a daily figure
TradingDaysPerYear == 252
\* a daily return given to the metrics is a multiple of 1/RDen
RDen == 2

(***************************************************************************)
(* Input domains.                                                          *)
(***************************************************************************)
\* trading days of the exchange: 2024-11-30 is a Saturday, so 2024-11-29 is
\* the last trading day of November 2024; 2024-12-31, 2025-01-31 and
\* 2025-03-31 are trading days that end a calendar period
TradingDays ==
  << <<2024, 11, 27>>, <<2024, 11, 29>>, <<2024, 12, 31>>, <<2025, 1, 2>>,
     <<2025, 1, 31>>, <<2025, 3, 31>>, <<2025, 4, 1>> >>

\* price rows: three rows of positive prices, a row with a zero price and a
\* row with a negative price
GoodPriceRows ==
  { [A |-> 2, B |-> 3], [A |-> 3, B |-> 3], [A |-> 5, B |-> 2] }

BadPriceRows == { [A |-> 0, B |-> 3], [A |-> 2, B |-> -1] }

PriceRows == GoodPriceRows \cup BadPriceRows

\* target weights in units of 1/WDen: 0.5/0.5, the defaults 0.6/0.4, a
\* mapping that sums to 0.5, a mapping that sums to 1.1, and a mapping that
\* names a ticker that is no column of the table
WeightChoices ==
  { [A |-> 10, B |-> 10], [A |-> 12, B |-> 8], [A |-> 0, B |-> 10],
    [A |-> 12, B |-> 10], [A |-> 10, C |-> 10] }

InitialCashChoices == { -1, 0, MaxCash }

\* the keys of rebalance_options in app.main
AppSelectors == { "ME", "QE", "A", "N" }

\* app.main: the period code passed to simulate_portfolio for a selector
AppRebalPeriod(selector) == IF selector = "N" THEN "100Y" ELSE selector

\* period codes simulate_portfolio is called with: those of app.main, and
\* the default "Q" of generate_static_data
PeriodChoices == { AppRebalPeriod(sel) : sel \in AppSelectors } \cup { "Q" }

(***************************************************************************)
(* Arithmetic helpers.                                                     *)
(***************************************************************************)
RECURSIVE SumOver(_, _)
\* Python's sum(f[t] for t in S)
SumOver(S, f) ==
  IF S = {} THEN 0
  ELSE LET t == CHOOSE x \in S : TRUE IN f[t] + SumOver(S \ {t}, f)

Abs(x) == IF x < 0 THEN -x ELSE x

RECURSIVE MaxOf(_)
\* Python's max() of a non-empty collection of numbers
MaxOf(S) ==
  LET x == CHOOSE y \in S : TRUE
  IN  IF S = {x} THEN x
      ELSE LET m == MaxOf(S \ {x}) IN IF x > m THEN x ELSE m

\* Python's a // b for b # 0: the floor of the quotient, for either sign
FloorDiv(a, b) ==
  LET n == IF b > 0 THEN a ELSE -a
      d == IF b > 0 THEN b ELSE -b
      q == Abs(n) \div d
  IN  IF n >= 0 THEN q
      ELSE IF q * d = Abs(n) THEN -q ELSE -q - 1

(***************************************************************************)
(* The calendar, and pandas' period-end resampling of the index.           *)
(***************************************************************************)
IsLeap(y) == (y % 4 = 0 /\ y % 100 # 0) \/ y % 400 = 0

DaysInMonth(y, m) ==
  IF m = 2 THEN (IF IsLeap(y) THEN 29 ELSE 28)
  ELSE IF m \in {4, 6, 9, 11} THEN 30 ELSE 31

\* months counted from year 0
MonthIndex(date) == date[1] * 12 + (date[2] - 1)

\* the last day of the month with the given index
MonthEndDate(idx) ==
  << idx \div 12, (idx % 12) + 1, DaysInMonth(idx \div 12, (idx % 12) + 1) >>

\* the offset a period code resolves to: n periods of `months` months, each
\* ending at a calendar month, quarter or year end; "none" when pandas does
\* not know the code
ParsePeriod(code) ==
  CASE code \in {"M", "ME"}      -> [ok |-> TRUE, n |-> 1, months |-> 1]
    [] code = "QE"               -> [ok |-> TRUE, n |-> 1, months |-> 3]
    [] code \in {"A", "Y", "YE"} -> [ok |-> TRUE, n |-> 1, months |-> 12]
    [] code = "100Y"             -> [ok |-> TRUE, n |-> 100, months |-> 12]
    [] OTHER                     -> [ok |-> FALSE, n |-> 0, months |-> 0]

\* the month index that ends the calendar period (of `months` months) of idx
PeriodEndIndex(idx, months) == ((idx \div months) + 1) * months - 1

\* prices.resample(code).last().index: the labels of the bins, which are
\* calendar period ends.  The first bin ends at the period end of the first
\* date, the bins are n periods long, and the last bin is the first one
\* that ends on or after the last date.
ResampleIndex(dates, off) ==
  IF dates = <<>> THEN {}
  ELSE LET first == PeriodEndIndex(MonthIndex(dates[1]), off.months)
           last  == MonthIndex(dates[Len(dates)])
           step  == off.n * off.months
           k     == IF last <= first THEN 0
                    ELSE ((last - first) + step - 1) \div step
       IN  { MonthEndDate(first + j * step) : j \in 0..k }

(***************************************************************************)
(* initialize_portfolio.                                                   *)
(***************************************************************************)
\* a share count rounded up instead of down
ShareCountRoundedUp(cash, w, price) == -FloorDiv(-(cash * w), WDen * price)

\* int(allocation[t] // prices[t]), allocation[t] being cash * w / WDen
ShareCount(cash, w, price) == FloorDiv(cash * w, WDen * price)

\* what int(x // 0.0) raises: x // 0.0 is an infinity (OverflowError), or
\* not a number when x is 0 (ValueError)
ZeroPriceError(cash, px, w) ==
  IF \E t \in DOMAIN w : px[t] = 0 /\ cash * w[t] # 0
    THEN "OverflowError" ELSE "ValueError"

\* initialize_portfolio(cash, prices, weights): err is "none" and the pair
\* (shares, leftover) is returned, or err names the exception raised
initialize_portfolio(cash, px, w) ==
  IF \E t \in DOMAIN w : t \notin DOMAIN px
    THEN [err |-> "KeyError", shares |-> <<>>, leftover |-> 0]
  ELSE IF \E t \in DOMAIN w : px[t] = 0
    THEN [err |-> ZeroPriceError(cash, px, w), shares |-> <<>>, leftover |-> 0]
  ELSE LET sh == [t \in DOMAIN w |-> ShareCount(cash, w[t], px[t])]
       IN  [err |-> "none", shares |-> sh,
            leftover |-> cash - SumOver(DOMAIN w, [t \in DOMAIN w |-> sh[t] * px[t]])]

(***************************************************************************)
(* simulate_portfolio.                                                     *)
(***************************************************************************)
VARIABLES
  prices,            \* the price table: a sequence of [date, px]
  weights,           \* ticker -> target weight, in units of 1/WDen
  initial_cash,
  rebalance_period,  \* the period code
  pc,                \* "start", "loop", "done" or "error"
  err,               \* the exception raised, "none" if none
  rebal_dates,       \* the set of rebalance dates
  shares,            \* ticker -> share count
  leftover,          \* the cash balance
  i,                 \* the row the loop is at
  records,           \* the rows appended so far
  events,            \* history: the rebalances made, [idx, shares, leftover]
  df,                \* the performance table simulate_portfolio returned
  returns,           \* what calculate_returns returned for df
  daily_returns,     \* the daily series given to calculate_metrics and, as
                     \* the portfolio's, to compare_to_benchmark, in 1/RDen
  benchmark_returns, \* the benchmark's daily series, in 1/RDen
  report,            \* what calculate_metrics returned
  comparison,        \* what compare_to_benchmark returned
  session,           \* st.session_state of the app
  widgets,           \* the values of the sidebar's widgets
  rerun              \* what the last run of app.main computed and showed

sim_vars ==
  << prices, weights, initial_cash, rebalance_period, pc, err, rebal_dates,
     shares, leftover, i, records, events, df, returns >>

metric_vars == << daily_returns, benchmark_returns, report, comparison >>

app_vars == << session, widgets, rerun >>

vars == << sim_vars, metric_vars, app_vars >>

\* the tables of `len` rows: a run of trading days, each with a price row
TablesOfLen(len) ==
  { [k \in 1..len |-> [date |-> TradingDays[s + k - 1], px |-> rows[k]]] :
      s \in 1..(Len(TradingDays) - len + 1), rows \in [1..len -> PriceRows] }

Tables == UNION { TablesOfLen(len) : len \in 0..MaxDays }

Dates(table) == [k \in 1..Len(table) |-> table[k].date]

\* lines 22-27 of app.py: the session state of a new session; the stored
\* settings are the empty dict
InitialSession ==
  [prices |-> "None", last_settings |-> [k \in {} |-> 0],
   analysis_run |-> FALSE, perf |-> FALSE]

\* DEFAULT_WEIGHTS, in units of 1/WDen
DEFAULT_WEIGHTS == [VTI |-> 12, BND |-> 8]

\* the values the widgets show in a new session: lines 62-69, 76-79,
\* 87-94, 105-111, 121-126 (index 1 of the keys) and 137
DefaultWidgets ==
  [start |-> <<2018, 1, 1>>, end |-> TradingDays[Len(TradingDays)],
   tickers |-> <<"VTI", "BND">>, weights |-> DEFAULT_WEIGHTS,
   initial_cash |-> DEFAULT_INITIAL_CASH, rebalance_period |-> "QE",
   refresh_data |-> FALSE]

\* app.main has not run yet
NoRerun ==
  [started |-> FALSE, count |-> 0, touched |-> "none", run_button |-> FALSE,
   settings_changed |-> FALSE, run_analysis |-> FALSE, warning |-> FALSE]

\* no report and no comparison computed yet
NoReport == [computed |-> FALSE]

NoComparison == [computed |-> FALSE]

\* no return series computed yet
NoReturns ==
  [computed |-> FALSE, daily |-> <<>>, monthly |-> <<>>, annual |-> <<>>]

\* the scenario of two tickers at weights 0.5/0.5 whose first price rises by
\* a tenth a day, with 10000 of initial cash and no rebalancing
ScenarioTable ==
  << [date |-> TradingDays[4], px |-> [A |-> 100, B |-> 100]],
     [date |-> TradingDays[5], px |-> [A |-> 110, B |-> 100]],
     [date |-> TradingDays[6], px |-> [A |-> 121, B |-> 100]] >>

ScenarioWeights == [A |-> WDen \div 2, B |-> WDen \div 2]

ScenarioCash == 100 * 100

Init ==
  /\ \/ /\ prices \in Tables
        /\ weights \in WeightChoices
        /\ initial_cash \in InitialCashChoices
        /\ rebalance_period \in PeriodChoices
     \/ /\ prices = ScenarioTable
        /\ weights = ScenarioWeights
        /\ initial_cash = ScenarioCash
        /\ rebalance_period = AppRebalPeriod("N")
  /\ pc = "start"
  /\ err = "none"
  /\ rebal_dates = {}
  /\ shares = <<>>
  /\ leftover = 0
  /\ i = 1
  /\ records = <<>>
  /\ events = <<>>
  /\ df = <<>>
  /\ returns = NoReturns
  /\ daily_returns = <<>>
  /\ benchmark_returns = <<>>
  /\ report = NoReport
  /\ comparison = NoComparison
  /\ session = InitialSession
  /\ widgets = DefaultWidgets
  /\ rerun = NoRerun

\* lines 34-36: the deprecated code "Q" is replaced by "QE"
UpdateDeprecated(code) == IF code = "Q" THEN "QE" ELSE code

\* lines 25-51: the rebalance dates, the empty-table check, the initial
\* allocation at the first price row
Begin ==
  /\ pc = "start"
  /\ LET off == ParsePeriod(UpdateDeprecated(rebalance_period))
         res == initialize_portfolio(initial_cash, prices[1].px, weights)
     IN  IF ~off.ok
           THEN /\ pc' = "error" /\ err' = "ValueError"
                /\ UNCHANGED << rebal_dates, shares, leftover >>
         ELSE IF Len(prices) = 0
           THEN /\ pc' = "error" /\ err' = "ValueError"
                /\ rebal_dates' = ResampleIndex(Dates(prices), off)
                /\ UNCHANGED << shares, leftover >>
         ELSE IF res.err # "none"
           THEN /\ pc' = "error" /\ err' = res.err
                /\ rebal_dates' = ResampleIndex(Dates(prices), off)
                /\ UNCHANGED << shares, leftover >>
         ELSE /\ pc' = "loop" /\ err' = "none"
              /\ rebal_dates' = ResampleIndex(Dates(prices), off)
              /\ shares' = res.shares
              /\ leftover' = res.leftover
  /\ UNCHANGED << prices, weights, initial_cash, rebalance_period, i, records,
                  events, df, returns >>
  /\ UNCHANGED << metric_vars, app_vars >>

\* line 55: the position values
Vals(sh, px) == [t \in DOMAIN weights |-> sh[t] * px[t]]

\* a total that leaves the cash out
TotalValueWithoutCash(vals, left) == SumOver(DOMAIN vals, vals)

\* line 56
TotalValue(vals, left) == SumOver(DOMAIN vals, vals) + left

\* a deviation of the weights within the positions, the cash left out
MaxDeviationOfPositions(vals, total) ==
  LET pos == SumOver(DOMAIN vals, vals)
  IN  IF pos = 0 THEN [nan |-> TRUE, num |-> 0, den |-> 1]
      ELSE [nan |-> FALSE,
            num |-> MaxOf({ Abs(WDen * vals[t] - weights[t] * pos) : t \in DOMAIN vals }),
            den |-> WDen * Abs(pos)]

\* lines 59-60: max |vals[t] / total - weights[t]| as a fraction; dividing
\* by a total of 0 gives a value that is not a number
MaxDeviation(vals, total) ==
  IF total = 0 THEN [nan |-> TRUE, num |-> 0, den |-> 1]
  ELSE [nan |-> FALSE,
        num |-> MaxOf({ Abs(WDen * vals[t] - weights[t] * total) : t \in DOMAIN vals }),
        den |-> WDen * Abs(total)]

\* lines 62-68: the row of one day (held: the shares the row is valued
\* with, kept for the properties; the code records only their values)
MakeRecord(date, sh, left, px) ==
  LET vals == Vals(sh, px)
      total == TotalValue(vals, left)
  IN  [date |-> date, vals |-> vals, cash |-> left, total |-> total,
       max_weight_deviation |-> MaxDeviation(vals, total), held |-> sh]

\* a test that takes every date as a rebalance date
IsRebalanceDayAlways(date) == TRUE

\* the test of line 71 without its exclusion of the first date
IsRebalanceDayAlsoFirst(date) == date \in rebal_dates

\* line 71
IsRebalanceDay(date) == date \in rebal_dates /\ date # prices[1].date

\* a rebalance that allocates the initial cash instead of the total value
RebalanceInitialCash(total_value, px, w) ==
  IF \E t \in DOMAIN w : px[t] = 0
    THEN [err |-> ZeroPriceError(initial_cash, px, w), shares |-> <<>>, leftover |-> 0]
  ELSE LET sh == [t \in DOMAIN w |-> FloorDiv(initial_cash * w[t], WDen * px[t])]
       IN  [err |-> "none", shares |-> sh,
            leftover |-> initial_cash
                           - SumOver(DOMAIN w, [t \in DOMAIN w |-> sh[t] * px[t]])]

\* lines 72-74: the new holdings
Rebalance(total_value, px, w) ==
  IF \E t \in DOMAIN w : px[t] = 0
    THEN [err |-> ZeroPriceError(total_value, px, w), shares |-> <<>>, leftover |-> 0]
  ELSE LET targets == [t \in DOMAIN w |-> total_value * w[t]]
           sh == [t \in DOMAIN w |-> FloorDiv(targets[t], WDen * px[t])]
       IN  [err |-> "none", shares |-> sh,
            leftover |-> total_value
                           - SumOver(DOMAIN w, [t \in DOMAIN w |-> sh[t] * px[t]])]

\* an iteration that rebalances before it appends the row, so that the row
\* of a rebalance date shows the new holdings
DayStepRebalanceFirst ==
  /\ pc = "loop"
  /\ i <= Len(prices)
  /\ LET row == prices[i]
         old == MakeRecord(row.date, shares, leftover, row.px)
         res == Rebalance(old.total, row.px, weights)
     IN  IF ~IsRebalanceDay(row.date)
           THEN /\ records' = Append(records, old)
                /\ i' = i + 1
                /\ UNCHANGED << pc, err, shares, leftover, events >>
         ELSE IF res.err # "none"
           THEN /\ pc' = "error" /\ err' = res.err
                /\ UNCHANGED << i, shares, leftover, events, records >>
         ELSE /\ i' = i + 1
              /\ shares' = res.shares
              /\ leftover' = res.leftover
              /\ events' = Append(events, [idx |-> i, shares |-> res.shares,
                                           leftover |-> res.leftover])
              /\ records' = Append(records,
                     MakeRecord(row.date, res.shares, res.leftover, row.px))
              /\ UNCHANGED << pc, err >>
  /\ UNCHANGED << prices, weights, initial_cash, rebalance_period, rebal_dates,
                  df, returns >>
  /\ UNCHANGED << metric_vars, app_vars >>

\* lines 53-74: one iteration of the loop: value the holdings, append the
\* row, then rebalance if the date is a rebalance date
DayStep ==
  /\ pc = "loop"
  /\ i <= Len(prices)
  /\ LET row == prices[i]
         rec == MakeRecord(row.date, shares, leftover, row.px)
         res == Rebalance(rec.total, row.px, weights)
     IN  /\ records' = Append(records, rec)
         /\ IF ~IsRebalanceDay(row.date)
              THEN /\ i' = i + 1
                   /\ UNCHANGED << pc, err, shares, leftover, events >>
            ELSE IF res.err # "none"
              THEN /\ pc' = "error" /\ err' = res.err
                   /\ UNCHANGED << i, shares, leftover, events >>
            ELSE /\ i' = i + 1
                 /\ shares' = res.shares
                 /\ leftover' = res.leftover
                 /\ events' = Append(events, [idx |-> i, shares |-> res.shares,
                                              leftover |-> res.leftover])
                 /\ UNCHANGED << pc, err >>
  /\ UNCHANGED << prices, weights, initial_cash, rebalance_period, rebal_dates,
                  df, returns >>
  /\ UNCHANGED << metric_vars, app_vars >>

\* lines 76-77: the rows are returned
Finish ==
  /\ pc = "loop"
  /\ i > Len(prices)
  /\ pc' = "done"
  /\ df' = records
  /\ UNCHANGED << prices, weights, initial_cash, rebalance_period, err,
                  rebal_dates, shares, leftover, i, records, events, returns >>
  /\ UNCHANGED << metric_vars, app_vars >>

(***************************************************************************)
(* calculate_returns.  A return is the fraction num/den = cur/prev - 1; a  *)
(* den of 0 stands for an infinity (prev = 0, cur # 0).  0/0 is not a      *)
(* number, and dropna() removes it.                                        *)
(***************************************************************************)
\* one entry of pct_change(), dated; nan marks a value that is not a number
PctChange(date, prev, cur) ==
  [date |-> date,
   nan  |-> prev.nan \/ cur.nan \/ (prev.v = 0 /\ cur.v = 0),
   num  |-> cur.v - prev.v,
   den  |-> prev.v]

IsNumber(e) == ~e.nan

\* dropna(): the entries that are numbers, the nan mark taken off
DropNa(entries) ==
  LET kept == SelectSeq(entries, IsNumber)
  IN  [k \in 1..Len(kept) |->
         [date |-> kept[k].date, num |-> kept[k].num, den |-> kept[k].den]]

\* line 82: total.pct_change().dropna()
DailyReturns(table) ==
  DropNa([k \in 1..(Len(table) - 1) |->
            PctChange(table[k + 1].date,
                      [nan |-> FALSE, v |-> table[k].total],
                      [nan |-> FALSE, v |-> table[k + 1].total])])

\* total.resample(code).last(): one bin per calendar period of `months`
\* months from the period of the first row to the period of the last row,
\* labelled by its end date, holding the total of the last row that falls
\* in it; a bin without a row is not a number
ResampleLast(table, months) ==
  LET first == PeriodEndIndex(MonthIndex(table[1].date), months)
      last  == PeriodEndIndex(MonthIndex(table[Len(table)].date), months)
      nbins == ((last - first) \div months) + 1
      RowsIn(j) == { k \in 1..Len(table) :
                       PeriodEndIndex(MonthIndex(table[k].date), months)
                         = first + (j - 1) * months }
  IN  [j \in 1..nbins |->
         [date |-> MonthEndDate(first + (j - 1) * months),
          nan  |-> RowsIn(j) = {},
          v    |-> IF RowsIn(j) = {} THEN 0
                   ELSE table[CHOOSE k \in RowsIn(j) :
                                \A m \in RowsIn(j) : m <= k].total]]

\* what pct_change() does first when it fills forward (fill_method 'pad',
\* the default before pandas 3): a bin that is not a number takes the value
\* of the nearest bin before it that is one
RECURSIVE Pad(_)
Pad(bins) ==
  IF Len(bins) <= 1 THEN bins
  ELSE LET front == Pad(SubSeq(bins, 1, Len(bins) - 1))
           b     == bins[Len(bins)]
       IN  Append(front,
                  IF b.nan THEN [date |-> b.date,
                                 nan |-> front[Len(front)].nan,
                                 v |-> front[Len(front)].v]
                  ELSE b)

\* lines 85 and 88: total.resample(code).last().pct_change().dropna();
\* pad tells whether the installed pandas fills forward in pct_change()
PeriodReturns(table, months, pad) ==
  LET bins == IF pad THEN Pad(ResampleLast(table, months))
              ELSE ResampleLast(table, months)
  IN  DropNa([j \in 1..(Len(bins) - 1) |->
                PctChange(bins[j + 1].date, bins[j], bins[j + 1])])

\* lines 79-94
calculate_returns(table, pad) ==
  [computed |-> TRUE,
   daily    |-> DailyReturns(table),
   monthly  |-> PeriodReturns(table, 1, pad),
   annual   |-> PeriodReturns(table, 12, pad)]

\* the caller's step after simulate_portfolio returned, once per analysis
\* (src/app.py line 225); the installed pandas decides pad
CalculateReturns ==
  /\ pc = "done"
  /\ ~returns.computed
  /\ \E pad \in BOOLEAN : returns' = calculate_returns(df, pad)
  /\ UNCHANGED << prices, weights, initial_cash, rebalance_period, pc, err,
                  rebal_dates, shares, leftover, i, records, events, df >>
  /\ UNCHANGED << metric_vars, app_vars >>

(***************************************************************************)
(* rebalance_analysis.                                                     *)
(***************************************************************************)
\* lines 174-182: the columns the function writes into the rows of the
\* table it was given: per ticker the weight vals/total and its deviation
\* from the target, and the mean absolute deviation; a total of 0 gives
\* values that are not numbers or are infinite (den 0)
AnalysisColumns(row, w) ==
  [weight        |-> [t \in DOMAIN w |-> [num |-> row.vals[t], den |-> row.total]],
   deviation     |-> [t \in DOMAIN w |->
                        [num |-> WDen * row.vals[t] - w[t] * row.total,
                         den |-> WDen * row.total]],
   avg_deviation |-> [num |-> SumOver(DOMAIN w,
                                [t \in DOMAIN w |->
                                   Abs(WDen * row.vals[t] - w[t] * row.total)]),
                      den |-> WDen * Abs(row.total) * Cardinality(DOMAIN w)]]

\* rebalance_analysis(portfolio_df, weights), lines 168-185: the columns
\* are assigned on portfolio_df itself; the mean it returns goes to the
\* caller and is no part of the state
RebalanceAnalysis ==
  /\ pc = "done"
  /\ df' = [k \in 1..Len(df) |-> AnalysisColumns(df[k], weights) @@ df[k]]
  /\ UNCHANGED << prices, weights, initial_cash, rebalance_period, pc, err,
                  rebal_dates, shares, leftover, i, records, events, returns >>
  /\ UNCHANGED << metric_vars, app_vars >>

Next == Begin \/ DayStep \/ Finish

Spec == Init /\ [][Next]_vars

(***************************************************************************)
(* A simulation followed by the operations that receive its table.         *)
(***************************************************************************)
\* the tables whose prices are all positive
GoodTables == { t \in Tables : \A k \in 1..Len(t) : t[k].px \in GoodPriceRows }

\* the weight mappings that name the table's tickers
TableWeightChoices == { w \in WeightChoices : DOMAIN w = {"A", "B"} }

InitReturns ==
  /\ prices \in GoodTables
  /\ weights \in TableWeightChoices
  /\ initial_cash \in InitialCashChoices
  /\ rebalance_period \in PeriodChoices
  /\ pc = "start"
  /\ err = "none"
  /\ rebal_dates = {}
  /\ shares = <<>>
  /\ leftover = 0
  /\ i = 1
  /\ records = <<>>
  /\ events = <<>>
  /\ df = <<>>
  /\ returns = NoReturns
  /\ daily_returns = <<>>
  /\ benchmark_returns = <<>>
  /\ report = NoReport
  /\ comparison = NoComparison
  /\ session = InitialSession
  /\ widgets = DefaultWidgets
  /\ rerun = NoRerun

NextReturns ==
  Begin \/ DayStep \/ Finish \/ CalculateReturns \/ RebalanceAnalysis

SpecReturns == InitReturns /\ [][NextReturns]_vars

(***************************************************************************)
(* calculate_metrics and compare_to_benchmark.  A daily return is an       *)
(* integer r that stands for r / RDen.  A report entry that is rational is *)
(* a fraction [nan, num, den]; a standard deviation is kept as its square  *)
(* [nan, sq_num, sq_den]; an entry that is a power or a quotient by a      *)
(* square root is kept as [nan, inf, sign].                                *)
(***************************************************************************)
\* the daily returns -100%, -50%, 0 and +50%
ReturnChoices == (-RDen)..(RDen - 1)

ReturnSeries == UNION { [1..n -> ReturnChoices] : n \in 0..MaxReturns }

RECURSIVE SumSeq(_)
SumSeq(seq) ==
  IF seq = <<>> THEN 0 ELSE seq[Len(seq)] + SumSeq(SubSeq(seq, 1, Len(seq) - 1))

RECURSIVE Power(_, _)
Power(b, e) == IF e = 0 THEN 1 ELSE b * Power(b, e - 1)

Sign(x) == IF x > 0 THEN 1 ELSE IF x < 0 THEN -1 ELSE 0

Zero == [nan |-> FALSE, inf |-> FALSE, sign |-> 0]

\* Series.std(), which divides by n - 1, times the square root of `scale`:
\* the square of the value; not a number for fewer than 2 entries
Std(seq, scale) ==
  LET n  == Len(seq)
      s1 == SumSeq(seq)
      s2 == SumSeq([k \in 1..n |-> seq[k] * seq[k]])
  IN  IF n < 2 THEN [nan |-> TRUE, sq_num |-> 0, sq_den |-> 1]
      ELSE [nan |-> FALSE, sq_num |-> scale * (n * s2 - s1 * s1),
            sq_den |-> n * (n - 1) * RDen * RDen]

\* x > 0 for a standard deviation x: false when x is not a number
Positive(x) == ~x.nan /\ x.sq_num > 0

\* line 101: (1 + mean) ** 252 - 1, by its sign, which is the sign of
\* |1 + mean| - 1 as 252 is even; the mean of no entries is not a number
AnnReturn(seq) ==
  LET n == Len(seq)
  IN  IF n = 0 THEN [nan |-> TRUE, inf |-> FALSE, sign |-> 0]
      ELSE [nan |-> FALSE, inf |-> FALSE,
            sign |-> Sign(Abs(n * RDen + SumSeq(seq)) - n * RDen)]

\* a quotient without the guard of its denominator
QuotientUnguarded(ann_return, dev) ==
  IF ann_return.nan \/ dev.nan \/ (dev.sq_num = 0 /\ ann_return.sign = 0)
    THEN [nan |-> TRUE, inf |-> FALSE, sign |-> 0]
  ELSE [nan |-> FALSE, inf |-> dev.sq_num = 0, sign |-> ann_return.sign]

\* lines 107 and 116: ann_return / dev if dev > 0 else 0
GuardedQuotient(ann_return, dev) ==
  IF Positive(dev)
    THEN [nan |-> FALSE, inf |-> FALSE, sign |-> ann_return.sign]
  ELSE Zero

\* line 110: the k-th entry of (1 + daily_returns).cumprod(), over the
\* denominator RDen ^ Len(seq)
RECURSIVE Cumulative(_, _)
Cumulative(seq, k) ==
  IF k = 0 THEN Power(RDen, Len(seq))
  ELSE (Cumulative(seq, k - 1) * (RDen + seq[k])) \div RDen

\* a fraction that is least in a non-empty set of fractions with positive
\* denominators
MinFraction(fs) ==
  CHOOSE f \in fs : \A g \in fs : f.num * g.den <= g.num * f.den

\* lines 110-111: (cumulative / cumulative.cummax() - 1).min(); an entry
\* whose running maximum is 0 is 0/0, which min() skips; the minimum of no
\* number is not a number
MaxDrawdown(seq) ==
  LET CumMax(k) == MaxOf({ Cumulative(seq, j) : j \in 1..k })
      dd == { [nan |-> FALSE,
               num |-> Cumulative(seq, k) - CumMax(k),
               den |-> CumMax(k)] :
              k \in { j \in 1..Len(seq) : CumMax(j) # 0 } }
  IN  IF dd = {} THEN [nan |-> TRUE, num |-> 0, den |-> 1] ELSE MinFraction(dd)

IsNegative(r) == r < 0

\* lines 114-115: the annualized deviation of the negative returns, 0 when
\* there is none
DownsideDev(seq) ==
  LET neg_returns == SelectSeq(seq, IsNegative)
  IN  IF Len(neg_returns) > 0 THEN Std(neg_returns, TradingDaysPerYear)
      ELSE [nan |-> FALSE, sq_num |-> 0, sq_den |-> 1]

\* lines 119-129: norm.ppf(0.05, mean, std) is a finite number when the
\* mean is a number and the deviation a positive number, and not a number
\* otherwise; then the fallback -0.02 is taken
Var95(seq) ==
  [nan |-> FALSE, fallback |-> ~Positive(Std(seq, 1))]

\* line 138: the last cumulative value minus 1, or 0 for no entries
TotalReturn(seq) ==
  IF Len(seq) > 0
    THEN [nan |-> FALSE,
          num |-> Cumulative(seq, Len(seq)) - Power(RDen, Len(seq)),
          den |-> Power(RDen, Len(seq))]
  ELSE [nan |-> FALSE, num |-> 0, den |-> 1]

\* lines 96-139; no statement of it raises
calculate_metrics(seq) ==
  [computed              |-> TRUE,
   annualized_return     |-> AnnReturn(seq),
   annualized_volatility |-> Std(seq, TradingDaysPerYear),
   sharpe_ratio          |-> GuardedQuotient(AnnReturn(seq),
                                             Std(seq, TradingDaysPerYear)),
   sortino_ratio         |-> GuardedQuotient(AnnReturn(seq), DownsideDev(seq)),
   max_drawdown          |-> MaxDrawdown(seq),
   var_95                |-> Var95(seq),
   total_return          |-> TotalReturn(seq)]

CalculateMetrics ==
  /\ ~report.computed
  /\ report' = calculate_metrics(daily_returns)
  /\ UNCHANGED << sim_vars, daily_returns, benchmark_returns, comparison,
                  app_vars >>

\* the sum of the products of two series of one length
SumProducts(p, b) == SumSeq([k \in 1..Len(p) |-> p[k] * b[k]])

\* line 144: np.cov(p, b)[0, 1], which divides by n - 1
Covariance(p, b) ==
  LET n == Len(p)
  IN  IF n < 2 THEN [nan |-> TRUE, num |-> 0, den |-> 1]
      ELSE [nan |-> FALSE,
            num |-> n * SumProducts(p, b) - SumSeq(p) * SumSeq(b),
            den |-> n * (n - 1) * RDen * RDen]

\* line 145: np.var(b), which divides by n
Variance(b) ==
  LET n == Len(b)
  IN  IF n = 0 THEN [nan |-> TRUE, num |-> 0, den |-> 1]
      ELSE [nan |-> FALSE,
            num |-> n * SumProducts(b, b) - SumSeq(b) * SumSeq(b),
            den |-> n * n * RDen * RDen]

\* line 146: cov / var if var > 0 else 1
Beta(p, b) ==
  LET cov == Covariance(p, b)
      var == Variance(b)
  IN  IF ~var.nan /\ var.num > 0
        THEN [nan |-> FALSE, num |-> cov.num * var.den, den |-> cov.den * var.num]
      ELSE [nan |-> FALSE, num |-> 1, den |-> 1]

\* lines 149-152: mean(p) * 252 - beta * mean(b) * 252
Alpha(p, b) ==
  LET n    == Len(p)
      beta == Beta(p, b)
  IN  IF n = 0 THEN [nan |-> TRUE, num |-> 0, den |-> 1]
      ELSE [nan |-> FALSE,
            num |-> TradingDaysPerYear
                      * (SumSeq(p) * beta.den - beta.num * SumSeq(b)),
            den |-> n * RDen * beta.den]

\* lines 155-156
TrackingError(p, b) ==
  Std([k \in 1..Len(p) |-> p[k] - b[k]], TradingDaysPerYear)

\* line 159
InformationRatio(p, b) ==
  IF Positive(TrackingError(p, b))
    THEN [nan |-> FALSE, inf |-> FALSE, sign |-> Sign(SumSeq(p) - SumSeq(b))]
  ELSE Zero

\* lines 141-166; np.cov raises for series of two lengths
compare_to_benchmark(p, b) ==
  IF Len(p) # Len(b) THEN [computed |-> TRUE, err |-> "ValueError"]
  ELSE [computed          |-> TRUE,
        err               |-> "none",
        beta              |-> Beta(p, b),
        alpha             |-> Alpha(p, b),
        tracking_error    |-> TrackingError(p, b),
        information_ratio |-> InformationRatio(p, b)]

CompareToBenchmark ==
  /\ ~comparison.computed
  /\ comparison' = compare_to_benchmark(daily_returns, benchmark_returns)
  /\ UNCHANGED << sim_vars, daily_returns, benchmark_returns, report,
                  app_vars >>

\* the series are inputs; no simulation has run
InitMetrics ==
  /\ daily_returns \in ReturnSeries
  /\ benchmark_returns \in ReturnSeries
  /\ report = NoReport
  /\ comparison = NoComparison
  /\ session = InitialSession
  /\ widgets = DefaultWidgets
  /\ rerun = NoRerun
  /\ prices = <<>>
  /\ weights = <<>>
  /\ initial_cash = 0
  /\ rebalance_period = "N"
  /\ pc = "idle"
  /\ err = "none"
  /\ rebal_dates = {}
  /\ shares = <<>>
  /\ leftover = 0
  /\ i = 1
  /\ records = <<>>
  /\ events = <<>>
  /\ df = <<>>
  /\ returns = NoReturns

NextMetrics == CalculateMetrics \/ CompareToBenchmark

SpecMetrics == InitMetrics /\ [][NextMetrics]_vars

(***************************************************************************)
(* app.main.  Streamlit runs the script once when the session starts and   *)
(* once more after every interaction: a widget given another value, the    *)
(* Run button pressed, or a rerun asked for with nothing touched.          *)
(***************************************************************************)
StartChoices == { <<2018, 1, 1>>, <<2019, 1, 1>> }

TickerChoices == { <<"VTI", "BND">>, <<"VTI">> }

\* slider positions, in units of 1/WDen: 0.4, 0.5 and 0.6
SliderChoices == { 8, 10, 12 }

CashChoices == { MinInitialCash, DEFAULT_INITIAL_CASH }

\* what fetch_price_data gives: a table of two rows or more, a table of one
\* row, an empty table, or an exception
FetchOutcomes == { "table", "short", "empty", "error" }

TickerSet(tickers) == { tickers[k] : k \in 1..Len(tickers) }

\* lines 86-97: a slider keeps its value under its key while it is shown,
\* and a slider that appears shows its default
SlidersFor(tickers, old) ==
  [t \in TickerSet(tickers) |->
     IF t \in DOMAIN old THEN old[t]
     ELSE IF t \in DOMAIN DEFAULT_WEIGHTS THEN DEFAULT_WEIGHTS[t]
     ELSE WDen \div Len(tickers)]

\* the interactions that lead to the next run: the widget touched, the
\* values of the widgets after it, and whether the Run button was pressed
Interactions(w) ==
  { [touched |-> "none", run_button |-> b, widgets |-> w] : b \in BOOLEAN }
  \cup { [touched |-> "start", run_button |-> FALSE,
          widgets |-> [w EXCEPT !.start = d]] : d \in StartChoices \ {w.start} }
  \cup { [touched |-> "tickers", run_button |-> FALSE,
          widgets |-> [w EXCEPT !.tickers = ts,
                                !.weights = SlidersFor(ts, w.weights)]] :
           ts \in TickerChoices \ {w.tickers} }
  \cup UNION { { [touched |-> "weight", run_button |-> FALSE,
                  widgets |-> [w EXCEPT !.weights[t] = v]] :
                   v \in SliderChoices \ {w.weights[t]} } :
               t \in DOMAIN w.weights }
  \cup { [touched |-> "initial_cash", run_button |-> FALSE,
          widgets |-> [w EXCEPT !.initial_cash = c]] :
           c \in CashChoices \ {w.initial_cash} }
  \cup { [touched |-> "rebalance_period", run_button |-> FALSE,
          widgets |-> [w EXCEPT !.rebalance_period = sel]] :
           sel \in AppSelectors \ {w.rebalance_period} }
  \cup { [touched |-> "refresh_data", run_button |-> FALSE,
          widgets |-> [w EXCEPT !.refresh_data = ~w.refresh_data]] }

\* current_settings when line 130 compares it: the keys set at lines 67,
\* 70, 80, 97, 112 and 127 (weights stands for the keys weight_<ticker>)
SettingsAtCompare(w) ==
  [start |-> w.start, end |-> w.end, tickers |-> w.tickers,
   weights |-> w.weights, initial_cash |-> w.initial_cash,
   rebalance_period |-> w.rebalance_period]

\* current_settings when line 151 stores a copy of it: line 138 has added
\* the key refresh_data
SettingsStored(w) ==
  [start |-> w.start, end |-> w.end, tickers |-> w.tickers,
   weights |-> w.weights, initial_cash |-> w.initial_cash,
   rebalance_period |-> w.rebalance_period, refresh_data |-> w.refresh_data]

\* lines 154-236: the analysis, from the session state s that lines 151-152
\* have updated; sim_ok tells whether simulate_portfolio and the metrics
\* raise nothing on the table
Analysis(s, w, fetched, sim_ok) ==
  IF Abs(SumOver(DOMAIN w.weights, w.weights) - WDen) > 1
    THEN [s EXCEPT !.prices = "None"]
  ELSE IF fetched \in { "empty", "short" }
    THEN [s EXCEPT !.prices = fetched]
  ELSE IF fetched = "error" /\ s.prices = "None"
    THEN s
  ELSE LET s1 == IF fetched = "error" THEN s ELSE [s EXCEPT !.prices = fetched]
       IN  IF s1.prices # "empty" /\ sim_ok THEN [s1 EXCEPT !.perf = TRUE]
           ELSE s1

\* one run of app.main, lines 41-252
Rerun ==
  /\ rerun.count < MaxReruns
  /\ \E ch \in Interactions(widgets), fetched \in FetchOutcomes,
        sim_ok \in BOOLEAN :
       LET w                == ch.widgets
           settings_changed == session.last_settings # SettingsAtCompare(w)
           run_analysis     == ch.run_button
                                 \/ (~session.analysis_run /\ ~settings_changed)
       IN  /\ rerun.started \/ (ch.touched = "none" /\ ~ch.run_button)
           /\ widgets' = w
           /\ session' =
                IF run_analysis
                  THEN Analysis([session EXCEPT
                                   !.last_settings = SettingsStored(w),
                                   !.analysis_run = TRUE],
                                w, fetched, sim_ok)
                ELSE session
           /\ rerun' = [started          |-> TRUE,
                        count            |-> rerun.count + 1,
                        touched          |-> ch.touched,
                        run_button       |-> ch.run_button,
                        settings_changed |-> settings_changed,
                        run_analysis     |-> run_analysis,
                        warning          |-> ~run_analysis /\ settings_changed]
  /\ UNCHANGED << sim_vars, metric_vars >>

InitApp ==
  /\ session = InitialSession
  /\ widgets = DefaultWidgets
  /\ rerun = NoRerun
  /\ daily_returns = <<>>
  /\ benchmark_returns = <<>>
  /\ report = NoReport
  /\ comparison = NoComparison
  /\ prices = <<>>
  /\ weights = <<>>
  /\ initial_cash = 0
  /\ rebalance_period = "N"
  /\ pc = "idle"
  /\ err = "none"
  /\ rebal_dates = {}
  /\ shares = <<>>
  /\ leftover = 0
  /\ i = 1
  /\ records = <<>>
  /\ events = <<>>
  /\ df = <<>>
  /\ returns = NoReturns

NextApp == Rerun

SpecApp == InitApp /\ [][NextApp]_vars

(***************************************************************************)
(* Definitions the properties share.                                       *)
(***************************************************************************)
\* the initial allocation of the call
InitialHoldings == initialize_portfolio(initial_cash, prices[1].px, weights)

\* the holdings in force before the j-th rebalance
HoldingsBefore(j) ==
  IF j = 1 THEN [shares |-> InitialHoldings.shares, leftover |-> InitialHoldings.leftover]
  ELSE [shares |-> events[j - 1].shares, leftover |-> events[j - 1].leftover]

\* q is the floor of a / b, stated without a division
IsFloorOf(q, a, b) ==
  IF b > 0 THEN q * b <= a /\ a < (q + 1) * b
  ELSE q * b >= a /\ a > (q + 1) * b

\* the calendar period of the requested frequency that row k lies in
PeriodOfRow(k) ==
  PeriodEndIndex(MonthIndex(prices[k].date),
                 ParsePeriod(UpdateDeprecated(rebalance_period)).months)

\* row k is the last trading date of the table inside its calendar period
IsLastOfPeriod(k) ==
  k = Len(prices) \/ PeriodOfRow(k + 1) # PeriodOfRow(k)

\* a rebalance was made at row k
RebalancedAt(k) == \E j \in 1..Len(events) : events[j].idx = k

\* every price of the table is positive
AllPricesPositive ==
  \A k \in 1..Len(prices) : \A t \in DOMAIN prices[k].px : prices[k].px[t] > 0

\* every weighted ticker is a column of the table
AllTickersPriced ==
  \A k \in 1..Len(prices) : DOMAIN weights \subseteq DOMAIN prices[k].px

\* the weights sum to 1
WeightsSumToOne == SumOver(DOMAIN weights, weights) = WDen

\* the inputs meet the contract of the simulator: positive initial cash,
\* positive prices, every weighted ticker a column, weights that sum to 1
ValidInputs ==
  /\ initial_cash > 0
  /\ AllPricesPositive
  /\ AllTickersPriced
  /\ WeightsSumToOne

(***************************************************************************)
(* The properties.                                                         *)
(***************************************************************************)
\* C1: for a monthly, quarterly or annual frequency and valid inputs, once
\* the simulation has returned, every row that is the last trading date of the table inside its
\* calendar period, and is not the first row, was rebalanced.
C1_RebalancedAtLastTradingDateOfPeriod ==
  (/\ pc = "done"
   /\ ValidInputs
   /\ UpdateDeprecated(rebalance_period) \in {"M", "ME", "QE", "A"})
    => \A k \in 2..Len(prices) : IsLastOfPeriod(k) => RebalancedAt(k)

\* C2: in every row, the recorded total is the sum of the recorded position
\* values plus the recorded cash.
C2_TotalIsPositionsPlusCash ==
  \A k \in 1..Len(records) :
    records[k].total
      = SumOver(DOMAIN records[k].vals, records[k].vals) + records[k].cash

\* C2 witness: a row valued after a rebalance, with cash left over.
C2_Witness ==
  \E k \in 1..Len(records) :
    /\ ValidInputs
    /\ \E j \in 1..Len(events) : events[j].idx < k
    /\ records[k].cash > 0
    /\ records[k].total > records[k].cash

\* C3: the holdings of every rebalance are the floor allocation of the total
\* recorded in that date's row at that date's prices, with the rest of the
\* total as leftover, and they are what initialize_portfolio returns for
\* that total and those prices.
C3_RebalanceIsAllocationOfTotal ==
  \A j \in 1..Len(events) :
    LET e   == events[j]
        tot == records[e.idx].total
        px  == prices[e.idx].px
    IN  /\ \A t \in DOMAIN weights :
             IsFloorOf(e.shares[t], tot * weights[t], WDen * px[t])
        /\ e.leftover
             = tot - SumOver(DOMAIN weights, [t \in DOMAIN weights |-> e.shares[t] * px[t]])
        /\ initialize_portfolio(tot, px, weights)
             = [err |-> "none", shares |-> e.shares, leftover |-> e.leftover]

\* C3 witness: a rebalance of a total that differs from the initial cash,
\* whose holdings differ from the allocation of the initial cash.
C3_Witness ==
  \E j \in 1..Len(events) :
    /\ records[events[j].idx].total # initial_cash
    /\ ValidInputs
    /\ events[j].shares
         # initialize_portfolio(initial_cash, prices[events[j].idx].px, weights).shares

\* C4: for a non-negative cash amount and positive prices, the initial
\* allocation holds floor(cash * weight / price) shares of every ticker, a
\* whole number, and the leftover is the cash less the cost of the shares.
C4_InitialAllocationIsFloor ==
  (/\ pc = "loop" /\ i = 1
   /\ initial_cash >= 0
   /\ \A t \in DOMAIN weights : prices[1].px[t] > 0)
    => /\ \A t \in DOMAIN weights :
            /\ shares[t] \in Nat
            /\ IsFloorOf(shares[t], initial_cash * weights[t], WDen * prices[1].px[t])
       /\ leftover
            = initial_cash
                - SumOver(DOMAIN weights, [t \in DOMAIN weights |-> shares[t] * prices[1].px[t]])

\* C4 witness: an initial allocation in which a share count is rounded down.
C4_Witness ==
  /\ pc = "loop" /\ i = 1
  /\ initial_cash > 0
  /\ \A t \in DOMAIN weights : prices[1].px[t] > 0
  /\ \E t \in DOMAIN weights :
       shares[t] * WDen * prices[1].px[t] < initial_cash * weights[t]

\* C5: with positive initial cash, positive prices and every weight in
\* [0, 1], every share count is a non-negative integer and the leftover cash
\* is non-negative after the initial allocation and after every rebalance.
C5_HoldingsNonNegative ==
  (/\ pc \in {"loop", "done"}
   /\ initial_cash > 0
   /\ AllPricesPositive
   /\ \A t \in DOMAIN weights : weights[t] \in 0..WDen)
    => /\ \A t \in DOMAIN weights : shares[t] \in Nat
       /\ leftover >= 0

\* C6: under the period code app.main passes for "Never" and with valid
\* inputs, every row shows the shares and the cash of the initial allocation
\* (no date of the table is a rebalance date).
C6_NeverKeepsInitialAllocation ==
  (/\ pc \in {"loop", "done"}
   /\ ValidInputs
   /\ rebalance_period = AppRebalPeriod("N"))
    => \A k \in 1..Len(records) :
         /\ records[k].held = InitialHoldings.shares
         /\ records[k].cash = InitialHoldings.leftover

\* C7: no rebalance is made at the first row, and the second row is valued
\* with the shares and the cash of the initial allocation.
C7_FirstDateNotRebalanced ==
  /\ ~RebalancedAt(1)
  /\ Len(records) >= 2
       => /\ records[2].held = InitialHoldings.shares
          /\ records[2].cash = InitialHoldings.leftover

\* C7 witness: the first date is a rebalance date and the second row exists.
C7_Witness ==
  /\ Len(records) >= 2
  /\ prices[1].date \in rebal_dates
  /\ ValidInputs

\* C8: for positive cash and weights that sum to 1, the allocation ends in an error and produces no
\* holdings whenever a weighted ticker has a price <= 0 or no price at all,
\* at the initial allocation and at every rebalance.
C8_BadPriceIsRejected ==
  /\ (/\ pc # "start"
      /\ Len(prices) > 0
      /\ initial_cash > 0
      /\ WeightsSumToOne
      /\ \E t \in DOMAIN weights :
           t \notin DOMAIN prices[1].px \/ prices[1].px[t] <= 0)
       => (pc = "error" /\ shares = <<>>)
  /\ \A j \in 1..Len(events) :
       \A t \in DOMAIN weights : prices[events[j].idx].px[t] > 0

\* C9: a call with initial_cash <= 0, its other inputs valid, does not
\* return rows.
C9_NonPositiveCashIsRejected ==
  (initial_cash <= 0 /\ AllPricesPositive /\ AllTickersPriced /\ WeightsSumToOne)
    => pc # "done"

\* C10: the row of a rebalance date is computed from the holdings in force
\* before that rebalance, and the row of the following date shows the new
\* holdings.
C10_RowPrecedesRebalance ==
  \A j \in 1..Len(events) :
    LET e == events[j]
        k == e.idx
        before == HoldingsBefore(j)
    IN  /\ records[k]
             = MakeRecord(prices[k].date, before.shares, before.leftover, prices[k].px)
        /\ Len(records) > k
             => /\ records[k + 1].held = e.shares
                /\ records[k + 1].cash = e.leftover

\* C10 witness: a rebalance that changes the holdings, followed by a row.
C10_Witness ==
  \E j \in 1..Len(events) :
    /\ ValidInputs
    /\ Len(records) > events[j].idx
    /\ events[j].shares # HoldingsBefore(j).shares
    /\ events[j].leftover # HoldingsBefore(j).leftover

\* the deviation a / b of one row is at most that of another, both numbers
DevLeq(a, b) == a.num * b.den <= b.num * a.den

\* C11: the deviation recorded in the row after a rebalance is at most the
\* deviation that row would show with the holdings carried over unchanged
\* from before the rebalance.
C11_RebalanceDoesNotRaiseDeviation ==
  ValidInputs =>
    \A j \in 1..Len(events) :
      LET k == events[j].idx
          before == HoldingsBefore(j)
      IN  Len(records) > k =>
            LET without == MakeRecord(prices[k + 1].date, before.shares,
                                      before.leftover, prices[k + 1].px)
            IN  DevLeq(records[k + 1].max_weight_deviation,
                       without.max_weight_deviation)

\* C11 as amended: at the prices of the rebalance date, the weight of every
\* ticker in the new holdings is within price / total of its target (the
\* rounding of one share); how the deviation of the next row compares with
\* the deviation without the rebalance depends on the next prices.
C11_RebalanceDeviationWithinOneShare ==
  ValidInputs =>
    \A j \in 1..Len(events) :
      LET e   == events[j]
          tot == records[e.idx].total
          px  == prices[e.idx].px
      IN  \A t \in DOMAIN weights :
            Abs(WDen * e.shares[t] * px[t] - weights[t] * tot) < WDen * px[t]

\* C11 witness: a rebalance followed by a row whose deviation is larger than
\* it would be with the holdings carried over.
C11_Witness ==
  /\ ValidInputs
  /\ \E j \in 1..Len(events) :
       LET k == events[j].idx
           before == HoldingsBefore(j)
       IN  /\ Len(records) > k
           /\ ~DevLeq(records[k + 1].max_weight_deviation,
                      MakeRecord(prices[k + 1].date, before.shares,
                                 before.leftover, prices[k + 1].px).max_weight_deviation)

\* C12 as stated: with weights summing to 1 and no rebalance made, the total
\* of the first row is the initial cash minus the leftover of the initial
\* allocation.
C12_FirstTotalIsCashMinusLeftover ==
  (ValidInputs /\ Len(records) >= 1 /\ events = <<>>)
    => records[1].total = initial_cash - records[1].cash

\* C12 as amended: with weights summing to 1 and no rebalance made, the
\* total of the first row is the initial cash, and the position values of
\* the first row sum to the initial cash minus the leftover.
C12_FirstTotalIsInitialCash ==
  (ValidInputs /\ Len(records) >= 1 /\ events = <<>>)
    => /\ records[1].total = initial_cash
       /\ SumOver(DOMAIN records[1].vals, records[1].vals)
            = initial_cash - records[1].cash

\* C12 witness: a first row with cash left over by the rounding.
C12_Witness ==
  /\ ValidInputs
  /\ Len(records) >= 1
  /\ events = <<>>
  /\ records[1].cash > 0

\* the inputs are those of the scenario
IsScenario ==
  /\ prices = ScenarioTable
  /\ weights = ScenarioWeights
  /\ initial_cash = ScenarioCash
  /\ rebalance_period = AppRebalPeriod("N")

\* C13: in every row with a total other than 0, max_weight_deviation is the
\* largest |position value / total - target weight| over the weighted
\* tickers, the total being the position values plus the cash; in the
\* scenario, day 0 holds 50 shares of each ticker, no cash and a total of
\* 10000, and day 1 shows 5500 and 5000, a total of 10500 and a deviation
\* of 1/42.
C13_MaxDeviationOverTickers ==
  /\ \A k \in 1..Len(records) :
       LET r   == records[k]
           tot == SumOver(DOMAIN r.vals, r.vals) + r.cash
           d   == r.max_weight_deviation
       IN  tot # 0 =>
             /\ ~d.nan
             /\ d.den = WDen * Abs(tot)
             /\ \A t \in DOMAIN weights :
                  Abs(WDen * r.vals[t] - weights[t] * tot) <= d.num
             /\ \E t \in DOMAIN weights :
                  Abs(WDen * r.vals[t] - weights[t] * tot) = d.num
  /\ (IsScenario /\ Len(records) >= 1)
       => /\ records[1].held = [A |-> 50, B |-> 50]
          /\ records[1].cash = 0
          /\ records[1].total = 10000
  /\ (IsScenario /\ Len(records) >= 2)
       => /\ records[2].vals = [A |-> 5500, B |-> 5000]
          /\ records[2].total = 10500
          /\ records[2].max_weight_deviation.num * 42
               = records[2].max_weight_deviation.den

\* C13 witness: the second row of the scenario.
C13_Witness == IsScenario /\ Len(records) >= 2

\* C19: a step changes the shares or the leftover cash only if it is the
\* initial allocation or the loop's step at a rebalance date other than the
\* first date; and each row after a day that is no rebalance event is valued
\* with the shares, and shows the cash, of the row before it.
C19_HoldingsChangeOnlyAtRebalance ==
  /\ [][ (shares' # shares \/ leftover' # leftover)
           => \/ pc = "start"
              \/ /\ pc = "loop"
                 /\ i <= Len(prices)
                 /\ i # 1
                 /\ prices[i].date \in rebal_dates ]_vars
  /\ [](\A k \in 1..(Len(records) - 1) :
          (k = 1 \/ prices[k].date \notin rebal_dates)
            => /\ records[k + 1].held = records[k].held
               /\ records[k + 1].cash = records[k].cash)

\* C19 witness: three rows, the first two with the same shares and cash, the
\* third with other shares after a rebalance at the second.
C19_Witness ==
  /\ ValidInputs
  /\ Len(records) >= 3
  /\ prices[2].date \in rebal_dates
  /\ records[2].held = records[1].held
  /\ records[3].held # records[2].held

(***************************************************************************)
(* Claims about calculate_returns and rebalance_analysis, under            *)
(* SpecReturns.                                                            *)
(***************************************************************************)
\* C14: for a table of n >= 1 rows the daily series has exactly n - 1
\* entries, entry k dated at row k + 1 and equal to
\* total[k + 1] / total[k] - 1; for n = 1 it is empty.
C14_DailyHasOneEntryPerLaterRow ==
  returns.computed =>
    /\ Len(returns.daily) = Len(df) - 1
    /\ \A k \in 1..(Len(df) - 1) :
         /\ returns.daily[k].date = df[k + 1].date
         /\ returns.daily[k].den # 0
         /\ returns.daily[k].num * df[k].total
              = (df[k + 1].total - df[k].total) * returns.daily[k].den
    /\ (Len(df) = 1 => returns.daily = <<>>)

\* the rows of the table that fall in the calendar period, of `months`
\* months, that ends with the month of index `last`
RowsOfPeriod(months, last) ==
  { k \in 1..Len(df) : PeriodEndIndex(MonthIndex(df[k].date), months) = last }

\* the period ends from the period of the first row to that of the last
PeriodEnds(months) ==
  { e \in PeriodEndIndex(MonthIndex(df[1].date), months)
            ..PeriodEndIndex(MonthIndex(df[Len(df)].date), months) :
      PeriodEndIndex(e, months) = e }

\* the total of the last row of a period that has a row
LastTotalOf(months, last) ==
  df[CHOOSE k \in RowsOfPeriod(months, last) :
       \A m \in RowsOfPeriod(months, last) : m <= k].total

\* the entries of a series dated at the end of the period
EntriesAt(series, last) ==
  { k \in 1..Len(series) : series[k].date = MonthEndDate(last) }

\* the claim of C15 for one series
SingleObservationGivesNoReturn(series, months) ==
  \A e \in PeriodEnds(months) :
    IF e = PeriodEndIndex(MonthIndex(df[1].date), months)
         \/ Cardinality(RowsOfPeriod(months, e)) = 1
      THEN EntriesAt(series, e) = {}
    ELSE (RowsOfPeriod(months, e) # {} /\ RowsOfPeriod(months, e - months) # {})
           => \E k \in EntriesAt(series, e) :
                series[k].num * LastTotalOf(months, e - months)
                  = (LastTotalOf(months, e) - LastTotalOf(months, e - months))
                      * series[k].den

\* C15: in the monthly and the annual series a calendar period with only
\* one observation contributes no entry; the other periods contribute the
\* change between the last total of the period and the last total of the
\* period before it, and the first period is dropped.
C15_SingleObservationGivesNoReturn ==
  (returns.computed /\ Len(df) >= 1) =>
    /\ SingleObservationGivesNoReturn(returns.monthly, 1)
    /\ SingleObservationGivesNoReturn(returns.annual, 12)

\* C20: once simulate_portfolio has returned the table, no step changes its
\* rows, its columns or a value in it.
C20_TableUnchangedAfterReturn ==
  [][pc = "done" => df' = df]_vars

(***************************************************************************)
(* Claims about calculate_metrics and compare_to_benchmark, under          *)
(* SpecMetrics.                                                            *)
(***************************************************************************)
IsFinite(x) == ~x.nan /\ ~x.inf

AllZero(seq) == \A k \in 1..Len(seq) : seq[k] = 0

\* C16: for every daily-return sequence the Sharpe and the Sortino ratio
\* of the report are finite, and 0 whenever the annualized volatility, or
\* the annualized downside deviation, is zero or not a number; for a
\* sequence of returns that are all 0 both ratios and the maximum drawdown
\* are 0.
C16_RatiosGuardTheirDenominator ==
  report.computed =>
    /\ IsFinite(report.sharpe_ratio)
    /\ IsFinite(report.sortino_ratio)
    /\ ~Positive(report.annualized_volatility) => report.sharpe_ratio = Zero
    /\ ~Positive(DownsideDev(daily_returns)) => report.sortino_ratio = Zero
    /\ (Len(daily_returns) >= 1 /\ AllZero(daily_returns))
         => /\ report.sharpe_ratio = Zero
            /\ report.sortino_ratio = Zero
            /\ ~report.max_drawdown.nan
            /\ report.max_drawdown.num = 0

\* C16 witness: the report of a series of two or more returns, all 0, whose
\* volatility is the number 0
C16_Witness ==
  /\ report.computed
  /\ Len(daily_returns) >= 2
  /\ AllZero(daily_returns)
  /\ ~report.annualized_volatility.nan
  /\ report.annualized_volatility.sq_num = 0

\* C17: for a series of no return or of one return no entry of the report
\* is not a number or infinite, and the entries of the report of the empty
\* series are the fallbacks: 0, and the -0.02 of var_95.
C17_DegenerateSeriesGiveFallbacks ==
  (report.computed /\ Len(daily_returns) <= 1) =>
    /\ IsFinite(report.annualized_return)
    /\ ~report.annualized_volatility.nan
    /\ IsFinite(report.sharpe_ratio)
    /\ IsFinite(report.sortino_ratio)
    /\ ~report.max_drawdown.nan
    /\ ~report.var_95.nan
    /\ ~report.total_return.nan
    /\ Len(daily_returns) = 0
         => /\ report.annualized_return = Zero
            /\ report.annualized_volatility.sq_num = 0
            /\ report.sharpe_ratio = Zero
            /\ report.sortino_ratio = Zero
            /\ report.max_drawdown.num = 0
            /\ report.var_95.fallback
            /\ report.total_return.num = 0

\* C18: for a series of two or more returns given as the portfolio's and as
\* the benchmark's, compare_to_benchmark raises nothing and returns beta 1,
\* alpha 0, tracking error 0 and information ratio 0.
C18_IdenticalSeriesGiveBetaOne ==
  (comparison.computed /\ daily_returns = benchmark_returns
     /\ Len(daily_returns) >= 2) =>
    /\ comparison.err = "none"
    /\ ~comparison.beta.nan
    /\ comparison.beta.num = comparison.beta.den
    /\ ~comparison.alpha.nan
    /\ comparison.alpha.num = 0
    /\ ~comparison.tracking_error.nan
    /\ comparison.tracking_error.sq_num = 0
    /\ comparison.information_ratio = Zero

(***************************************************************************)
(* Conservation of value, under Spec.                                      *)
(***************************************************************************)
\* C21: at every rebalance the value of the new shares at the day's prices
\* plus the new leftover equals the total recorded in the day's row; the
\* first row's total equals initial_cash; and between two consecutive rows
\* with the same prices the recorded total does not change, whether or not
\* the earlier day was rebalanced.
C21_RebalanceConservesValue ==
  /\ \A j \in 1..Len(events) :
       LET e  == events[j]
           px == prices[e.idx].px
       IN  SumOver(DOMAIN weights, [t \in DOMAIN weights |-> e.shares[t] * px[t]])
             + e.leftover
               = records[e.idx].total
  /\ (Len(records) >= 1 => records[1].total = initial_cash)
  /\ \A k \in 1..(Len(records) - 1) :
       prices[k + 1].px = prices[k].px => records[k + 1].total = records[k].total

\* C21 witness: a rebalance that changed the shares, followed by a row at
\* the same prices
C21_Witness ==
  /\ ValidInputs
  /\ \E j \in 1..Len(events) :
       LET k == events[j].idx
       IN  /\ Len(records) > k
           /\ prices[k + 1].px = prices[k].px
           /\ records[k + 1].held # records[k].held
           /\ records[k].total # initial_cash

(***************************************************************************)
(* The reruns of app.main, under SpecApp.                                  *)
(***************************************************************************)
\* C22: on every run of app.main, settings_changed is true only if a
\* setting (dates, tickers, weights, initial cash, rebalance period,
\* refresh flag) differs from the settings stored at the last analysis; a
\* run that follows an analysis with no setting touched computes
\* settings_changed = false and shows no 'Settings have changed' warning;
\* and an analysis starts only when the Run button is pressed or on the
\* first run.
C22_SettingsChangedOnlyAfterAChange ==
  [][ rerun' # rerun =>
        /\ rerun'.settings_changed
             => session.last_settings # SettingsStored(widgets')
        /\ (rerun.run_analysis /\ rerun'.touched = "none")
             => ~rerun'.settings_changed /\ ~rerun'.warning
        /\ rerun'.run_analysis => (rerun'.run_button \/ ~rerun.started) ]_vars

=============================================================================
